---- MODULE Spec2Model ----
(***************************************************************************)
(* The odometer scanner component OdometerOCRSystem.  The repository holds *)
(* two copies of it: src/unnamed/part_000 and src/src/ocr.js.  The         *)
(* variable impl says which copy a behaviour runs; everything else is the  *)
(* component's React state, its two refs, the preview element the refs     *)
(* point at, the hardware streams of the capture device, and the position  *)
(* of every suspended async handler.                                       *)
(*                                                                         *)
(* One action is one task of the browser's event loop: a handler from its  *)
(* invocation to its first await (or its end), or the continuation of a    *)
(* suspended handler from the event that resumes it to its next await,     *)
(* followed by React's commit of the state the task set.                   *)
(***************************************************************************)
EXTENDS Integers, Sequences, FiniteSets, TLC

\* ------------------------------------------------------------ bounds
MaxInFlight == 2   \* handler calls that can be suspended at once
MaxStreams  == 2   \* stream identities the capture device has in use at once
MaxReadings == 2   \* longest reading list explored
MaxClock    == 1   \* last value of the millisecond clock
ClockRes    == 2   \* clock ticks per unit of the printed timestamp

\* ------------------------------------------------------------ values
\* Math.floor(Math.random() * ReadingRange) lies in 0..ReadingRange-1; the
\* model draws the largest of them.  No handler branches on the reading.
ReadingRange == 100000
Readings == {ReadingRange - 1}

Impls == {"part_000", "ocr_js"}

NoStream == 0
StreamIds == 1..MaxStreams

NoError == <<>>
NoImage == <<>>

StartPrefix == "Error accessing camera: "

\* The message of an exception the browser raises, by its name.
BrowserMessage(name) ==
    CASE name = "NotAllowedError"      -> "Permission denied"
      [] name = "NotFoundError"        -> "Requested device not found"
      [] name = "NotReadableError"     -> "Could not start video source"
      [] name = "OverconstrainedError" -> "Constraints could not be satisfied"
      [] name = "AbortError"           -> "The play() request was interrupted"
      [] name = "TypeError"            -> "Cannot read properties of undefined"
      [] name = "SecurityError"        -> "The operation is insecure"
      [] OTHER                         -> ""

\* An exception object: name and message.
Err(name, message) == [name |-> name, message |-> message]
DomErr(name) == Err(name, BrowserMessage(name))
\* new Error(message)
NewError(message) == Err("Error", message)
\* The Event object the preview's onerror hands to reject: it has no name
\* and no message.
ErrorEvent == Err("", "")

VARIABLES
    impl,          \* which copy of the component runs
    origin,        \* the session state the behaviour began in
    apiSupported,  \* navigator.mediaDevices.getUserMedia exists
    secureContext, \* the page is served over https or from localhost
    hasCamera,     \* a video input device is present
    mountCheck,    \* position of the mount effect's checkCameraSupport
    isScanning, isProcessing, capturedImage, ocrResult, readings, error,
    streamRef,     \* streamRef.current: a stream, or NoStream
    videoRef,      \* videoRef.current is an element (the preview is mounted)
    srcObject,     \* the preview's srcObject
    videoWidth,    \* the preview's decoded width
    metaOwner,     \* the start attempt whose resolver is onloadedmetadata
    live,          \* acquired streams with a track that has not been stopped
    starts,        \* suspended startCamera calls
    captures,      \* suspended captureAndProcess calls
    now,           \* the value Date.now() returned last (the clock never
                   \* goes back, and is read only when a record is made)
    stopped,       \* stopCamera was invoked and startCamera has not been since
    last           \* the task that ran last, and how it ended

vars == <<impl, origin, apiSupported, secureContext, hasCamera, mountCheck,
          isScanning, isProcessing, capturedImage, ocrResult, readings, error,
          streamRef, videoRef, srcObject, videoWidth, metaOwner, live,
          starts, captures, now, stopped, last>>

envVars == <<impl, origin, apiSupported, secureContext, hasCamera>>

StartSlots   == 1..MaxInFlight
CaptureSlots == 1..MaxInFlight

NoStart   == [pc |-> "none", stream |-> NoStream]
NoCapture == [pc |-> "none", image |-> NoImage, seen |-> <<>>]

Task(op, res, step) == [op |-> op, res |-> res, step |-> step]

\* ------------------------------------------------------------ render
\* The preview element exists exactly while the component renders it.
VideoRendered(scanning) == scanning

\* The three buttons: rendered and not disabled.
StartEnabled   == ~isScanning /\ ~isProcessing
CaptureEnabled == isScanning /\ ~isProcessing
StopEnabled    == isScanning /\ ~isProcessing

\* ------------------------------------------------------------ streams
\* track.stop() on every track of stream s.
StopTracks(lv, s) == lv \ {s}

Referenced ==
    live \cup {streamRef, srcObject} \cup {starts[a].stream : a \in StartSlots}

FreeStreams == StreamIds \ Referenced

SmallestOf(S) == CHOOSE x \in S : \A y \in S : x <= y

StartsInFlight   == {a \in StartSlots : starts[a].pc # "none"}
CapturesInFlight == {c \in CaptureSlots : captures[c].pc # "none"}

\* ------------------------------------------------------------ Init
InitCommon ==
    /\ impl \in Impls
    /\ isProcessing = FALSE
    /\ capturedImage = NoImage
    /\ ocrResult = ""
    /\ readings = <<>>
    /\ error = NoError
    /\ metaOwner = 0
    /\ starts = [a \in StartSlots |-> NoStart]
    /\ captures = [c \in CaptureSlots |-> NoCapture]
    /\ now = 0
    /\ stopped = FALSE
    /\ last = Task("init", "", "")

\* The component as constructed and mounted.
InitMounted ==
    /\ InitCommon
    /\ origin = "mounted"
    /\ apiSupported \in BOOLEAN
    /\ secureContext \in BOOLEAN
    /\ hasCamera \in BOOLEAN
    /\ mountCheck = IF impl = "ocr_js" THEN "pending" ELSE "done"
    /\ isScanning = FALSE
    /\ streamRef = NoStream
    /\ videoRef = VideoRendered(FALSE)
    /\ srcObject = NoStream
    /\ videoWidth = 0
    /\ live = {}

\* The session as the success path of startCamera leaves it: scanning, the
\* granted stream held, attached to the mounted preview and decoded.  No
\* behaviour that begins with InitMounted gets here (NeverScanningFromMount),
\* so what the handlers do in a scanning session is explored from this
\* state, and origin tells the two kinds of behaviour apart.
InitScanning ==
    /\ InitCommon
    /\ origin = "scanning"
    /\ apiSupported = TRUE
    /\ secureContext = TRUE
    /\ hasCamera = TRUE
    /\ mountCheck = "done"
    /\ isScanning = TRUE
    /\ streamRef = 1
    /\ videoRef = TRUE
    /\ srcObject = 1
    /\ videoWidth = 1
    /\ live = {1}

Init == InitMounted \/ InitScanning

\* ------------------------------------------------------------ a task's view
\* What a handler reads and writes while it runs: the React state setters'
\* pending values, the refs and the preview's properties.  videoRef.current
\* does not change inside a task: React attaches and detaches it on commit.
Cur ==
    [isScanning |-> isScanning, isProcessing |-> isProcessing,
     capturedImage |-> capturedImage, ocrResult |-> ocrResult,
     readings |-> readings, error |-> error,
     streamRef |-> streamRef, srcObject |-> srcObject,
     videoWidth |-> videoWidth, metaOwner |-> metaOwner, live |-> live]

\* React's commit after the task: the state the task set becomes current and
\* the preview element is mounted or unmounted as the new state renders it.
\* An element that was not there before the commit is a new one.
Apply(r) ==
    /\ isScanning' = r.isScanning
    /\ isProcessing' = r.isProcessing
    /\ capturedImage' = r.capturedImage
    /\ ocrResult' = r.ocrResult
    /\ readings' = r.readings
    /\ error' = r.error
    /\ streamRef' = r.streamRef
    /\ live' = r.live
    /\ videoRef' = VideoRendered(r.isScanning)
    /\ IF videoRef /\ VideoRendered(r.isScanning)
       THEN /\ srcObject' = r.srcObject
            /\ videoWidth' = r.videoWidth
            /\ metaOwner' = r.metaOwner
       ELSE /\ srcObject' = NoStream
            /\ videoWidth' = 0
            /\ metaOwner' = 0

\* streamRef.current.getTracks().forEach(track => track.stop()), guarded by
\* if (streamRef.current).
StopHeldTracks(r) ==
    IF r.streamRef # NoStream
    THEN [r EXCEPT !.live = StopTracks(r.live, r.streamRef)]
    ELSE r

\* if (streamRef.current) { stop every track; streamRef.current = null }
ReleaseStream(r) ==
    IF r.streamRef # NoStream
    THEN [r EXCEPT !.live = StopTracks(r.live, r.streamRef),
                   !.streamRef = NoStream]
    ELSE r

\* if (videoRef.current) { videoRef.current.srcObject = null }
DetachPreview(r) ==
    IF videoRef
    THEN [r EXCEPT !.srcObject = NoStream, !.videoWidth = 0]
    ELSE r

\* videoRef.current.srcObject = stream: the preview loads the new source.
AttachPreview(r, s) == [r EXCEPT !.srcObject = s, !.videoWidth = 0]

\* ------------------------------------------------------------ stopCamera
\* stopCamera without its first block: the stream is neither stopped nor
\* let go of.
StopCameraKeepsStream(r) ==
    [DetachPreview(r) EXCEPT !.isScanning = FALSE]

StopCameraOn(r) ==
    [DetachPreview(ReleaseStream(r)) EXCEPT !.isScanning = FALSE]

\* ------------------------------------------------------------ startCamera
\* The text the catch clause of startCamera appends to the prefix.
StartErrorText(err) ==
    IF impl = "part_000"
    THEN CASE err.name = "NotAllowedError" ->
                "Camera permission denied. Please allow camera access."
           [] err.name = "NotFoundError" ->
                "No camera found on this device."
           [] err.name = "NotReadableError" ->
                "Camera is already in use by another application."
           [] OTHER ->
                IF err.message # "" THEN err.message
                ELSE "Unknown error occurred"
    ELSE err.message

StartErrorMessage(err) == <<StartPrefix, StartErrorText(err)>>

\* Whether the catch clause of startCamera releases the stream and detaches
\* the preview.
CatchReleases == impl = "part_000"

\* The catch clause of startCamera.
StartCatch(r, err) ==
    LET r1 == [r EXCEPT !.error = StartErrorMessage(err),
                        !.isScanning = FALSE]
    IN  IF CatchReleases THEN DetachPreview(ReleaseStream(r1)) ELSE r1

\* What startCamera resets before anything else.
StartReset(r) ==
    IF impl = "part_000"
    THEN [r EXCEPT !.error = NoError, !.capturedImage = NoImage,
                   !.ocrResult = ""]
    ELSE [r EXCEPT !.error = NoError]

\* The checks startCamera makes before it asks for the device: the error it
\* throws, or "" when it goes on.
StartPreflight ==
    IF impl = "part_000"
    THEN IF ~apiSupported
         THEN NewError("Camera API is not supported in this browser")
         ELSE IF ~secureContext
         THEN NewError("Camera access requires HTTPS (except on localhost)")
         ELSE Err("", "pass")
    ELSE IF ~apiSupported THEN DomErr("TypeError") ELSE Err("", "pass")

PreflightStep(err) ==
    IF err.name = "TypeError" \/ err.message = "Camera API is not supported in this browser"
    THEN "capability" ELSE "security"

\* Whether startCamera stops the tracks of a stream it finds held before it
\* asks for a new one.
StartStopsHeld == impl = "part_000"

\* A handler call can suspend while fewer than MaxInFlight are suspended.
InFlight == Cardinality(StartsInFlight) + Cardinality(CapturesInFlight)

FreeStartSlots == StartSlots \ StartsInFlight

\* startCamera from its invocation to await getUserMedia.
StartCamera ==
    /\ mountCheck # "pending"
    /\ InFlight < MaxInFlight
    /\ LET a  == SmallestOf(FreeStartSlots)
           r0 == StartReset(Cur)
           e  == StartPreflight
       IN  IF e.message # "pass"
           THEN /\ Apply(StartCatch(r0, e))
                /\ starts' = starts
                /\ last' = Task("start", "failed", PreflightStep(e))
           ELSE /\ Apply(IF StartStopsHeld THEN StopHeldTracks(r0) ELSE r0)
                /\ starts' = [starts EXCEPT ![a] =
                                 [pc |-> "awaitDevice", stream |-> NoStream]]
                /\ last' = Task("start", "pending", "device")
    /\ UNCHANGED <<envVars, mountCheck, captures, now>>
    /\ stopped' = FALSE

\* The names getUserMedia can reject with.  A browser hands out no stream
\* to a page outside a secure context, and none when there is no camera.
GumRejections ==
    IF ~secureContext THEN {"NotAllowedError"}
    ELSE IF hasCamera
    THEN {"NotAllowedError", "NotReadableError", "OverconstrainedError"}
    ELSE {"NotFoundError"}

GumCanGrant == secureContext /\ hasCamera

\* getUserMedia rejects: the continuation is the catch clause.
GumReject(a) ==
    /\ starts[a].pc = "awaitDevice"
    /\ \E name \in GumRejections :
          /\ Apply(StartCatch(Cur, DomErr(name)))
          /\ last' = Task("start", "failed", name)
    /\ starts' = [starts EXCEPT ![a] = NoStart]
    /\ UNCHANGED <<envVars, stopped, mountCheck, captures, now>>

\* Whether the wait for the first frame is bounded by a timer.
HasFrameTimeout == impl = "part_000"
\* Whether the preview's onerror rejects the wait for the first frame.
HasOnError == impl = "part_000"

\* getUserMedia resolves with a new stream: the continuation runs to the
\* await of the first frame, or into the catch clause when there is no
\* preview element.
GumResolve(a) ==
    /\ starts[a].pc = "awaitDevice"
    /\ GumCanGrant
    /\ FreeStreams # {}
    /\ LET s  == SmallestOf(FreeStreams)
           r1 == [Cur EXCEPT !.live = @ \cup {s}, !.streamRef = s]
       IN  IF ~videoRef
           THEN /\ Apply(StartCatch(r1,
                      NewError(IF impl = "part_000"
                               THEN "Video element not found"
                               ELSE "Video element not initialized")))
                /\ starts' = [starts EXCEPT ![a] = NoStart]
                /\ last' = Task("start", "failed", "granted")
           ELSE /\ Apply([AttachPreview(r1, s) EXCEPT !.metaOwner = a])
                /\ starts' = [starts EXCEPT ![a] =
                                 [pc |-> "awaitMetadata", stream |-> s]]
                /\ last' = Task("start", "pending", "granted")
    /\ UNCHANGED <<envVars, stopped, mountCheck, captures, now>>

\* The preview decodes the first frame of its source and fires
\* loadedmetadata; the attempt whose resolver is the handler goes on to
\* await videoRef.current.play().
LoadedMetadata ==
    /\ videoRef
    /\ srcObject # NoStream
    /\ srcObject \in live
    /\ videoWidth = 0
    /\ Apply([Cur EXCEPT !.videoWidth = 1, !.metaOwner = 0])
    /\ IF metaOwner # 0 /\ starts[metaOwner].pc = "awaitMetadata"
       THEN /\ starts' = [starts EXCEPT ![metaOwner].pc = "awaitPlay"]
            /\ last' = Task("start", "pending", "play")
       ELSE /\ starts' = starts
            /\ last' = Task("frame", "", "")
    /\ UNCHANGED <<envVars, stopped, mountCheck, captures, now>>

\* The 5000 ms timer of the wait for the first frame fires.
FrameTimeout(a) ==
    /\ HasFrameTimeout
    /\ starts[a].pc = "awaitMetadata"
    /\ Apply(StartCatch(IF metaOwner = a THEN [Cur EXCEPT !.metaOwner = 0] ELSE Cur,
                        NewError("Video stream timed out")))
    /\ starts' = [starts EXCEPT ![a] = NoStart]
    /\ last' = Task("start", "failed", "timeout")
    /\ UNCHANGED <<envVars, stopped, mountCheck, captures, now>>

\* The preview fires error while an attempt's reject is its onerror.
VideoError(a) ==
    /\ HasOnError
    /\ starts[a].pc = "awaitMetadata"
    /\ videoRef
    /\ srcObject # NoStream
    /\ metaOwner = a
    /\ Apply(StartCatch([Cur EXCEPT !.metaOwner = 0], ErrorEvent))
    /\ starts' = [starts EXCEPT ![a] = NoStart]
    /\ last' = Task("start", "failed", "videoerror")
    /\ UNCHANGED <<envVars, stopped, mountCheck, captures, now>>

\* play() resolves: setIsScanning(true) and startCamera returns.
PlayResolve(a) ==
    /\ starts[a].pc = "awaitPlay"
    /\ videoRef
    /\ srcObject = starts[a].stream
    /\ srcObject \in live
    /\ Apply([Cur EXCEPT !.isScanning = TRUE])
    /\ starts' = [starts EXCEPT ![a] = NoStart]
    /\ last' = Task("start", "ok", "")
    /\ UNCHANGED <<envVars, stopped, mountCheck, captures, now>>

\* play() rejects: the continuation is the catch clause.
PlayReject(a) ==
    /\ starts[a].pc = "awaitPlay"
    /\ Apply(StartCatch(Cur, DomErr("AbortError")))
    /\ starts' = [starts EXCEPT ![a] = NoStart]
    /\ last' = Task("start", "failed", "playback")
    /\ UNCHANGED <<envVars, stopped, mountCheck, captures, now>>

\* stopCamera, invoked on its own.
StopCamera ==
    /\ mountCheck # "pending"
    /\ Apply(StopCameraOn(Cur))
    /\ last' = Task("stop", "ok", IF streamRef # NoStream THEN "held" ELSE "none")
    /\ UNCHANGED <<envVars, mountCheck, starts, captures, now>>
    /\ stopped' = TRUE


\* ------------------------------------------------------------ captureAndProcess
NotReadyMessage == <<"Camera not ready. Please try again.">>

\* The check captureAndProcess makes on entry: "go", or how it returns.
CaptureEntry ==
    IF impl = "part_000"
    THEN IF ~videoRef \/ videoWidth = 0 THEN "not-ready" ELSE "go"
    ELSE IF ~videoRef THEN "return" ELSE "go"

\* canvas.toDataURL of the preview's current frame at its decoded size.
FrameImage(w) == <<"image/jpeg", w>>

\* The catch clause of captureAndProcess.
CaptureErrorMessage(err) ==
    IF impl = "part_000"
    THEN <<"Failed to capture and process image: ",
           IF err.message # "" THEN err.message ELSE "Unknown error">>
    ELSE <<"Error processing image - please try again">>

\* How captureAndProcess ends once it is past its entry check, on the path
\* that stores no reading.
CaptureFailed(r, err) ==
    StopCameraOn([r EXCEPT !.error = CaptureErrorMessage(err),
                           !.isProcessing = FALSE])

\* Whether drawing and encoding the frame happen inside the try block.
DrawInsideTry == impl = "part_000"

\* Whether captureAndProcess clears the error once past its entry check.
CaptureClearsError == impl = "part_000"

\* new Date().toLocaleString(): the printed time drops the milliseconds.
ToLocaleString(t) == t \div ClockRes

NewReading(t, reading, image) ==
    [id |-> t, reading |-> reading, timestamp |-> ToLocaleString(t),
     imageSrc |-> image]

\* The list setReadings stores: part_000 passes an updater that reads the
\* current list, ocr.js passes a list built from the readings its render saw.
Prepend(rec, current, seen) ==
    IF impl = "part_000" THEN <<rec>> \o current ELSE <<rec>> \o seen

FreeCaptureSlots == CaptureSlots \ CapturesInFlight

\* captureAndProcess from its invocation to the await of the recognition
\* delay.  drawOk is whether getContext, drawImage and toDataURL go through.
CaptureAndProcess ==
    /\ mountCheck # "pending"
    /\ InFlight < MaxInFlight
    /\ Len(readings) + Cardinality(CapturesInFlight) < MaxReadings
    /\ \E drawOk \in BOOLEAN :
        LET c   == SmallestOf(FreeCaptureSlots)
            ent == CaptureEntry
            r1  == [Cur EXCEPT !.isProcessing = TRUE,
                               !.error = IF CaptureClearsError THEN NoError ELSE @]
            img == FrameImage(videoWidth)
        IN  CASE ent = "not-ready" ->
                   /\ Apply([Cur EXCEPT !.error = NotReadyMessage])
                   /\ captures' = captures
                   /\ last' = Task("capture", "failed", "not-ready")
              [] ent = "return" ->
                   /\ Apply(Cur)
                   /\ captures' = captures
                   /\ last' = Task("capture", "returned", "no-preview")
              [] ent = "go" /\ drawOk ->
                   /\ Apply([r1 EXCEPT !.capturedImage = img])
                   /\ captures' = [captures EXCEPT ![c] =
                          [pc |-> "awaitRecognizer", image |-> img,
                           seen |-> IF impl = "part_000" THEN <<>> ELSE readings]]
                   /\ last' = Task("capture", "pending",
                                   IF streamRef \in live THEN "drawn-live"
                                   ELSE "drawn-dead")
              [] ent = "go" /\ ~drawOk ->
                   /\ Apply(IF DrawInsideTry
                            THEN CaptureFailed(r1, DomErr("SecurityError"))
                            ELSE r1)
                   /\ captures' = captures
                   /\ last' = Task("capture",
                                   IF DrawInsideTry THEN "failed" ELSE "threw",
                                   "draw")
    /\ UNCHANGED <<envVars, stopped, mountCheck, starts, now>>

\* The 1000 ms delay is over, the simulated reading is drawn and the clock
\* is read (t): the record is stored, then the processing flag is cleared and stopCamera runs.
RecognizerResolve(c) ==
    /\ captures[c].pc = "awaitRecognizer"
    /\ \E reading \in Readings, t \in now..MaxClock :
        LET rec == NewReading(t, reading, captures[c].image)
            r1  == [Cur EXCEPT !.ocrResult = ToString(reading),
                               !.readings = Prepend(rec, readings, captures[c].seen),
                               !.isProcessing = FALSE]
        IN  /\ Apply(StopCameraOn(r1))
            /\ now' = t
    /\ captures' = [captures EXCEPT ![c] = NoCapture]
    /\ last' = Task("recognize", "ok", IF streamRef \in live THEN "live" ELSE "dead")
    /\ UNCHANGED <<envVars, stopped, mountCheck, starts>>

\* A statement of the try block throws after the delay: the catch clause,
\* then the processing flag is cleared and stopCamera runs.
RecognizerFails(c) ==
    /\ captures[c].pc = "awaitRecognizer"
    /\ Apply(CaptureFailed(Cur, NewError("")))
    /\ captures' = [captures EXCEPT ![c] = NoCapture]
    /\ last' = Task("recognize", "failed", IF streamRef \in live THEN "live" ELSE "dead")
    /\ UNCHANGED <<envVars, stopped, mountCheck, starts, now>>

\* ------------------------------------------------------------ deleteReading
\* A filter that keeps what deleteReading drops.
RemoveOthers(list, id) == SelectSeq(list, LAMBDA rec : rec.id = id)

Remove(list, id) == SelectSeq(list, LAMBDA rec : rec.id # id)

\* The identifiers of the records of a list.
Ids(list) == {list[i].id : i \in 1..Len(list)}

DeleteReading(id) ==
    /\ mountCheck # "pending"
    /\ Apply([Cur EXCEPT !.readings = Remove(readings, id)])
    /\ last' = Task("delete", IF id \in Ids(readings) THEN "removed" ELSE "absent", id)
    /\ UNCHANGED <<envVars, stopped, mountCheck, starts, captures, now>>

\* ------------------------------------------------------------ exportReadings
\* A text is the sequence of its pieces; NewLine is the piece "\n".
NewLine == "\n"
Header == "Timestamp,Reading"

\* `${r.timestamp},${r.reading}`
Row(r) == ToString(r.timestamp) \o "," \o ToString(r.reading)

\* A join that leaves the separator out.
JoinWithoutSeparator(items, sep) == items

\* Array.prototype.join: the items with sep between neighbours; the empty
\* text for no items.
RECURSIVE Join(_, _)
Join(items, sep) ==
    IF Len(items) = 0 THEN <<>>
    ELSE IF Len(items) = 1 THEN <<items[1]>>
    ELSE <<items[1], sep>> \o Join(Tail(items), sep)

Rows(list) == [i \in 1..Len(list) |-> Row(list[i])]

\* The text handed to the Blob: part_000 joins the header and the rows,
\* ocr.js joins the rows and puts the header and a line feed before them.
CsvText(list) ==
    IF impl = "part_000"
    THEN Join(<<Header>> \o Rows(list), NewLine)
    ELSE <<Header, NewLine>> \o Join(Rows(list), NewLine)

ExportErrorMessage(err) ==
    <<"Failed to export readings: ",
      IF err.message # "" THEN err.message ELSE "Unknown error">>

\* Whether exportReadings catches what its body throws.
ExportCatches == impl = "part_000"

\* exportReadings.  downloadOk is whether the Blob, the object URL and the
\* click on the anchor go through.
ExportReadings ==
    /\ mountCheck # "pending"
    /\ \E downloadOk \in BOOLEAN :
          IF downloadOk
          THEN /\ Apply(Cur)
               /\ last' = Task("export", "ok", CsvText(readings))
          ELSE IF ExportCatches
          THEN /\ Apply([Cur EXCEPT !.error =
                          ExportErrorMessage(DomErr("SecurityError"))])
               /\ last' = Task("export", "failed", "download")
          ELSE /\ Apply(Cur)
               /\ last' = Task("export", "threw", "download")
    /\ UNCHANGED <<envVars, stopped, mountCheck, starts, captures, now>>

\* ------------------------------------------------------------ mount effect
InitPrefix == "Camera initialization error: "

\* checkCameraSupport from the mount effect to await enumerateDevices.
CheckCameraSupport ==
    /\ mountCheck = "pending"
    /\ IF ~apiSupported
       THEN /\ Apply([Cur EXCEPT !.error =
                <<InitPrefix, "Camera API is not supported in this browser">>])
            /\ mountCheck' = "done"
       ELSE IF ~secureContext
       THEN /\ Apply([Cur EXCEPT !.error =
                <<InitPrefix, "Camera access requires HTTPS (except on localhost)">>])
            /\ mountCheck' = "done"
       ELSE /\ Apply(Cur)
            /\ mountCheck' = "awaitDevices"
    /\ last' = Task("mount", "", "")
    /\ UNCHANGED <<envVars, stopped, starts, captures, now>>

\* enumerateDevices resolves.
EnumerateDevicesResolve ==
    /\ mountCheck = "awaitDevices"
    /\ Apply(IF hasCamera THEN Cur
             ELSE [Cur EXCEPT !.error = <<InitPrefix, "No camera devices found">>])
    /\ mountCheck' = "done"
    /\ last' = Task("mount", "done", "")
    /\ UNCHANGED <<envVars, stopped, starts, captures, now>>

\* ------------------------------------------------------------ specification
Next ==
    \/ CheckCameraSupport
    \/ EnumerateDevicesResolve
    \/ StartCamera
    \/ \E a \in StartSlots : GumResolve(a)
    \/ \E a \in StartSlots : GumReject(a)
    \/ LoadedMetadata
    \/ \E a \in StartSlots : FrameTimeout(a)
    \/ \E a \in StartSlots : VideoError(a)
    \/ \E a \in StartSlots : PlayResolve(a)
    \/ \E a \in StartSlots : PlayReject(a)
    \/ StopCamera
    \/ CaptureAndProcess
    \/ \E c \in CaptureSlots : RecognizerResolve(c)
    \/ \E c \in CaptureSlots : RecognizerFails(c)
    \/ \E id \in 0..MaxClock : DeleteReading(id)
    \/ ExportReadings

Spec == Init /\ [][Next]_vars

\* The timers the browser has armed fire: the recognition delay of every
\* suspended capture elapses.
Fairness ==
    \A c \in CaptureSlots : WF_vars(RecognizerResolve(c) \/ RecognizerFails(c))

FairSpec == Spec /\ Fairness

TypeOK ==
    /\ impl \in Impls
    /\ isScanning \in BOOLEAN
    /\ isProcessing \in BOOLEAN
    /\ streamRef \in StreamIds \cup {NoStream}
    /\ srcObject \in StreamIds \cup {NoStream}
    /\ live \subseteq StreamIds
    /\ videoRef = VideoRendered(isScanning)
    /\ Len(readings) <= MaxReadings


\* ------------------------------------------------------------ properties
ActiveStreams == Cardinality(live)

Quiescent == StartsInFlight = {} /\ CapturesInFlight = {}

\* From the component as constructed the session never becomes scanning:
\* the preview element is rendered only while scanning, and startCamera
\* sets scanning only once it has found the preview element.
NeverScanningFromMount == origin = "mounted" => ~isScanning /\ ~videoRef

\* C1: for every sequence and interleaving of start and stop, at most one
\* acquired stream has tracks that have not been stopped.  Stated for the
\* behaviours that begin with the component as constructed.
C1_AtMostOneActiveStream == origin = "mounted" => ActiveStreams <= 1

\* C2: once a start has failed, at whatever step, no stream is active, the
\* stream handle is cleared, the preview is detached, the session is idle
\* and the error is set.  Stated for the behaviours that begin with the
\* component as constructed.
C2_FailedStartReleases ==
    (origin = "mounted" /\ last.op = "start" /\ last.res = "failed") =>
        /\ live = {}
        /\ streamRef = NoStream
        /\ srcObject = NoStream
        /\ ~isScanning
        /\ error # NoError

\* C3: a start invoked from idle (every start of a behaviour that begins
\* with the component as constructed) that the device grants a stream does
\* not fail on being handed the stream; when it completes, the session is
\* scanning, the granted stream is the one active stream, held and attached
\* to the preview, and no error is set.
C3_GrantedStartScans ==
    /\ (origin = "mounted" /\ last.op = "start" /\ last.step = "granted") =>
          last.res # "failed"
    /\ (origin = "mounted" /\ last.op = "start" /\ last.res = "ok") =>
          /\ isScanning
          /\ live = {streamRef}
          /\ srcObject = streamRef
          /\ error = NoError

\* C4: stop() stops every track of the held stream, clears the handle,
\* detaches the preview and sets the session idle, leaving readings and
\* error as they were; invoked idle with no stream held it changes nothing.
C4_StopContract ==
    [][last'.op = "stop" =>
          /\ live' = live \ {streamRef}
          /\ streamRef' = NoStream
          /\ srcObject' = NoStream
          /\ ~isScanning'
          /\ readings' = readings
          /\ error' = error
          /\ (~isScanning /\ streamRef = NoStream) =>
                /\ live' = live
                /\ UNCHANGED <<isScanning, isProcessing, capturedImage,
                               ocrResult, readings, error, streamRef,
                               videoRef, srcObject, videoWidth, metaOwner,
                               starts, captures, now>>
    ]_vars

\* C4's case: stop has just run in a scanning session that held an active
\* stream attached to the preview, and released it.
C4_Witness ==
    /\ last = Task("stop", "ok", "held")
    /\ ~isScanning
    /\ streamRef = NoStream
    /\ live = {}
    /\ origin = "scanning"

\* C5: while a start or a capture is suspended, the start control and the
\* capture control are both disabled.  Stated for the behaviours that begin
\* with the component as constructed.
C5_ControlsDisabledInFlight ==
    (origin = "mounted" /\ ~Quiescent) => ~StartEnabled /\ ~CaptureEnabled


TimeoutMessage == <<StartPrefix, "Video stream timed out">>

C7_IdleCaptureNotReady ==
    [][(origin = "mounted" /\ last'.op = "capture" /\ ~isScanning) =>
          /\ error' = NotReadyMessage
          /\ readings' = readings
          /\ captures' = captures
    ]_vars

C10_StopReleasesAll ==
    (origin = "mounted" /\ stopped /\ Quiescent) => live = {}

\* The records of a list, as a set.
Records(list) == {list[i] : i \in 1..Len(list)}

RECURSIVE Split(_)
Split(text) ==
    IF Len(text) = 0 THEN << <<>> >>
    ELSE IF Head(text) = NewLine THEN << <<>> >> \o Split(Tail(text))
    ELSE LET rest == Split(Tail(text))
         IN  << <<Head(text)>> \o Head(rest) >> \o Tail(rest)

\* The lines of a text: a line ends at a line feed or at the end of the
\* text, and nothing after the last line feed is no line.
Lines(text) ==
    LET p == Split(text)
    IN  IF p[Len(p)] = <<>> THEN SubSeq(p, 1, Len(p) - 1) ELSE p

CameraAndCaptureTexts ==
    {StartPrefix, InitPrefix, NotReadyMessage[1],
     "Failed to capture and process image: ",
     "Error processing image - please try again"}

\* C16: an export leaves the reading list as it was; its failure does not
\* leave the handler, and is stored as an export-failed error that is none
\* of the camera and capture errors.
C16_ExportContract ==
    [][last'.op = "export" =>
          /\ readings' = readings
          /\ last'.res # "threw"
          /\ last'.res = "failed" =>
                /\ error' # NoError
                /\ error'[1] = "Failed to export readings: "
                /\ error'[1] \notin CameraAndCaptureTexts
    ]_vars

\* The task that ran last was an invocation of startCamera (and no
\* continuation of one).
StartInvoked ==
    last.op = "start" /\ last.step \in {"device", "capability", "security"}

\* C17: a stream is requested from the capture device only when the three
\* checks pass, and a start that finds one failing fails at the first that
\* fails, in the order capability, secure context, device presence.
C17_PreflightGates ==
    /\ \A a \in StartSlots :
          starts[a].pc = "awaitDevice" =>
             apiSupported /\ secureContext /\ hasCamera
    /\ (StartInvoked /\ ~apiSupported) => last = Task("start", "failed", "capability")
    /\ (StartInvoked /\ apiSupported /\ ~secureContext) =>
          last = Task("start", "failed", "security")
    /\ (StartInvoked /\ apiSupported /\ secureContext /\ ~hasCamera) =>
          last.res = "failed"

\* The kind of failure the start that has just failed met.
FailureKind ==
    CASE last.step = "capability"       -> "capability-unsupported"
      [] last.step = "security"         -> "insecure-context"
      [] last.step = "NotAllowedError"  ->
            IF secureContext THEN "permission-denied" ELSE "insecure-context"
      [] last.step = "NotFoundError"    -> "device-not-found"
      [] last.step = "NotReadableError" -> "device-already-in-use"
      [] last.step = "timeout"          -> "stream-timeout"
      [] OTHER                          -> "unknown"

\* The kind of failure a stored start error names: by the texts of the
\* catch clause of part_000 and by the browser's own messages, which are
\* what ocr.js shows.
ClassOf(msg) ==
    IF msg = NoError \/ msg[1] # StartPrefix THEN "none"
    ELSE CASE msg[2] \in {"Camera permission denied. Please allow camera access.",
                          BrowserMessage("NotAllowedError")}
                 -> "permission-denied"
           [] msg[2] \in {"No camera found on this device.",
                          BrowserMessage("NotFoundError")}
                 -> "device-not-found"
           [] msg[2] \in {"Camera is already in use by another application.",
                          BrowserMessage("NotReadableError")}
                 -> "device-already-in-use"
           [] msg[2] \in {"Camera API is not supported in this browser",
                          BrowserMessage("TypeError")}
                 -> "capability-unsupported"
           [] msg[2] = "Camera access requires HTTPS (except on localhost)"
                 -> "insecure-context"
           [] msg[2] = "Video stream timed out"
                 -> "stream-timeout"
           [] OTHER -> "unknown"

\* C18: the error a failed start leaves tells the kind of the failure, so
\* failures of two kinds leave different errors; and the session is idle.
\* In particular a start with no capture device ends as device-not-found.
C18_FailureKindsDistinct ==
    (last.op = "start" /\ last.res = "failed") =>
        /\ ClassOf(error) = FailureKind
        /\ ~isScanning

\* The task that ran last was an invocation of start, capture or export.
AttemptBegins ==
    StartInvoked \/ last.op = "capture" \/ last.op = "export"

\* C19: an invocation of start, capture or export made while an earlier
\* error is stored removes that error: when the invocation has not failed,
\* the error is empty after it.
C19_ErrorClearedOnAttempt ==
    [][(AttemptBegins' /\ error # NoError
            /\ last'.res \in {"ok", "pending", "returned"}) =>
          error' = NoError
    ]_vars

====
